---- MODULE Spec2Model ----
(***************************************************************************)
(* A model of src/ping-tool.py: main() fans one ping_host task per entry   *)
(* of HOSTS out to a multiprocessing pool, collects the results in         *)
(* completion order, logs and parses each one, then sorts the rows by      *)
(* DISPLAY_ORDER and renders the summary table.                            *)
(*                                                                         *)
(* Representation.  A Python str is a sequence of pieces.  The literals    *)
(* the regular expressions of parse_ping_output look for are single        *)
(* pieces (a literal matches whole or not at all); decimal digits, "."     *)
(* and "/" are pieces of one character, because the expressions' groups    *)
(* are built from them; any other piece is text no expression reads.       *)
(* A Python float is the exact decimal [num / den] in lowest decimal       *)
(* terms, which is what float() yields for the short digit strings the     *)
(* inputs hold.  Values whose Python type decides a branch are tagged with *)
(* their type (field t).  One more piece, LongRun, stands for a run of     *)
(* digits one longer than CPython converts to an int (4300 digits, since   *)
(* 3.11 and the security releases of 3.8 to 3.10); int() of a string with  *)
(* more digits raises ValueError.                                          *)
(*                                                                         *)
(* Environment.  The external ping command is the environment: it          *)
(* succeeds with some output, exceeds the subprocess timeout, or the       *)
(* invocation raises another exception.  The outputs it prints are those of *)
(* the ping utilities (none holds a number of thousands of digits).  Faults *)
(* of the console and of the file system are not modelled.                 *)
(***************************************************************************)
EXTENDS Integers, Sequences, FiniteSets, TLC

VARIABLES
    hosts,          \* the module global HOSTS, as items(): <<name, ip>> pairs
    display_order,  \* the module global DISPLAY_ORDER
    count,          \* args.count
    pc,             \* main()'s position
    taskq,          \* tasks imap_unordered submitted and no worker took yet
    running,        \* tasks a pool worker is executing ping_host on
    resultq,        \* results of finished tasks main() has not fetched yet
    ncollected,     \* results the imap_unordered iterator has yielded
    cur,            \* the result the body of the for loop is working on
    progress,       \* names of the "Finished pinging" lines, in print order
    logs,           \* file name -> contents, of the files under ping_logs
    open_files,     \* file names open for writing
    writes,         \* file name -> number of times it was opened for writing
    invoked,        \* host name -> number of calls of ping_host
    started,        \* host name -> number of external ping commands started
    returned,       \* host name -> what ping_host returned for it
    ended,          \* host name -> how its subprocess.run ended
    all_results,    \* main()'s all_results
    table,          \* the rows added to the rich table
    input,          \* parse_ping_output's argument, when checked on its own
    parsed          \* and its return value

vars == <<hosts, display_order, count, pc, taskq, running, resultq, ncollected,
          cur, progress, logs, open_files, writes, invoked, started, returned,
          ended, all_results, table, input, parsed>>

----------------------------------------------------------------------------
(* Bounds of the model *)

\* args.count ranges over 1..MaxCount and the default
MaxCount == 1

\* texts given to parse_ping_output on its own are made of at most MaxFrags fragments
MaxFrags == 3

----------------------------------------------------------------------------
(* Configuration *)

DefaultCount == 10

SubprocessMargin == 10

\* sys.int_info.default_max_str_digits of the interpreter running int()
MaxStrDigits == 4300

HOSTS == << <<"Modem", "10.0.0.1">>,
            <<"Router", "192.168.1.1">>,
            <<"Google DNS", "8.8.8.8">> >>

DISPLAY_ORDER == <<"Router", "Modem", "Google DNS">>

\* the characters of the host names, for str.replace
Chars(name) ==
    CASE name = "Modem" -> <<"M", "o", "d", "e", "m">>
      [] name = "Router" -> <<"R", "o", "u", "t", "e", "r">>
      [] name = "Google DNS" -> <<"G", "o", "o", "g", "l", "e", " ", "D", "N", "S">>

----------------------------------------------------------------------------
(* Python values *)

None == [t |-> "None"]

PyStr(s) == [t |-> "str", s |-> s]

PyInt(n) == [t |-> "int", v |-> n]

PyFloat(n, d) == [t |-> "float", num |-> n, den |-> d]

DigitChars == <<"0", "1", "2", "3", "4", "5", "6", "7", "8", "9">>

\* a run of MaxStrDigits + 1 digits 9, printed as a packet count
LongRun == "999...9"

IsDigit(c) == c = LongRun \/ \E i \in 1..10 : DigitChars[i] = c

RECURSIVE NumDigits(_)
NumDigits(ds) ==
    IF ds = <<>> THEN 0
    ELSE (IF Head(ds) = LongRun THEN MaxStrDigits + 1 ELSE 1) + NumDigits(Tail(ds))

\* int(ds) raises ValueError: the string exceeds the limit for conversion
IntRaises(ds) == NumDigits(ds) > MaxStrDigits

ValueError == [exc |-> "ValueError"]

IsRaise(r) == "exc" \in DOMAIN r

DigitVal(c) == (CHOOSE i \in 1..10 : DigitChars[i] = c) - 1

\* int(ds) of a string of decimal digits that int() converts
RECURSIVE IntOf(_)
IntOf(ds) ==
    IF ds = <<>> THEN 0
    ELSE 10 * IntOf(SubSeq(ds, 1, Len(ds) - 1)) + DigitVal(ds[Len(ds)])

\* str(n) of an integer n >= 0
RECURSIVE StrOfNat(_)
StrOfNat(n) ==
    IF n < 10 THEN <<DigitChars[n + 1]>>
    ELSE Append(StrOfNat(n \div 10), DigitChars[(n % 10) + 1])

\* str(n) of an integer
StrOfInt(n) == IF n < 0 THEN <<"-">> \o StrOfNat(0 - n) ELSE StrOfNat(n)

RECURSIVE Pow10(_)
Pow10(k) == IF k = 0 THEN 1 ELSE 10 * Pow10(k - 1)

RECURSIVE Lowest(_, _)
Lowest(n, d) == IF d > 1 /\ n % 10 = 0 THEN Lowest(n \div 10, d \div 10) ELSE PyFloat(n, d)

\* float(s) of a string matching \d+\.?\d*
FloatOf(s) ==
    LET dots == {i \in 1..Len(s) : s[i] = "."}
        p == IF dots = {} THEN Len(s) + 1 ELSE CHOOSE i \in dots : TRUE
        ip == SubSeq(s, 1, p - 1)
        fp == SubSeq(s, p + 1, Len(s))
    IN  Lowest(IntOf(ip \o fp), Pow10(Len(fp)))

FloatGt(f, n) == f.num > n * f.den

----------------------------------------------------------------------------
(* The regular expressions of parse_ping_output *)

LOSS == "% packet loss"

TX == " packets transmitted, "

RX == " packets received"

RTT == "round-trip min/avg/max/stddev = "

MS == " ms"

TIMEOUT_MARK == "Request timeout for icmp_seq"

NoMatch == [t |-> "None", groups |-> <<>>]

Match(gs) == [t |-> "Match", groups |-> gs]

Least(S) == CHOOSE x \in S : \A y \in S : x <= y

\* the last index of the longest run of \d that starts at i (i - 1: no run)
DigitRunEnd(s, i) ==
    LET stop == {j \in i..Len(s) : ~IsDigit(s[j])}
    IN  IF stop = {} THEN Len(s) ELSE Least(stop) - 1

\* the last index of the longest run of [\d.] that starts at i (i - 1: no run)
NumRunEnd(s, i) ==
    LET stop == {j \in i..Len(s) : ~(IsDigit(s[j]) \/ s[j] = ".")}
    IN  IF stop = {} THEN Len(s) ELSE Least(stop) - 1

At(s, i) == IF i \in 1..Len(s) THEN s[i] ELSE ""

\* (\d+\.?\d*)% packet loss, matched at position i
LossMatchAt(s, i) ==
    LET e == NumRunEnd(s, i)
        g == SubSeq(s, i, e)
    IN  /\ IsDigit(At(s, i))
        /\ Cardinality({j \in 1..Len(g) : g[j] = "."}) <= 1
        /\ At(s, e + 1) = LOSS

\* re.search(r"(\d+\.?\d*)% packet loss", s): the leftmost match
packet_loss_re(s) ==
    LET at == {i \in 1..Len(s) : LossMatchAt(s, i)}
    IN  IF at = {} THEN NoMatch
        ELSE LET i == Least(at) IN Match(<<SubSeq(s, i, NumRunEnd(s, i))>>)

\* (\d+) packets transmitted, (\d+) packets received, matched at position i
StatsMatchAt(s, i) ==
    LET e1 == DigitRunEnd(s, i)
        e2 == DigitRunEnd(s, e1 + 2)
    IN  /\ e1 >= i
        /\ At(s, e1 + 1) = TX
        /\ e2 >= e1 + 2
        /\ At(s, e2 + 1) = RX

\* re.search(r"(\d+) packets transmitted, (\d+) packets received", s)
packet_stats_re(s) ==
    LET at == {i \in 1..Len(s) : StatsMatchAt(s, i)}
    IN  IF at = {} THEN NoMatch
        ELSE LET i == Least(at)
                 e1 == DigitRunEnd(s, i)
                 e2 == DigitRunEnd(s, e1 + 2)
             IN  Match(<<SubSeq(s, i, e1), SubSeq(s, e1 + 2, e2)>>)

\* round-trip min/avg/max/stddev = ([\d.]+)/([\d.]+)/([\d.]+)/([\d.]+) ms at i
RttMatchAt(s, i) ==
    LET e1 == NumRunEnd(s, i + 1)
        e2 == NumRunEnd(s, e1 + 2)
        e3 == NumRunEnd(s, e2 + 2)
        e4 == NumRunEnd(s, e3 + 2)
    IN  /\ At(s, i) = RTT
        /\ e1 >= i + 1 /\ At(s, e1 + 1) = "/"
        /\ e2 >= e1 + 2 /\ At(s, e2 + 1) = "/"
        /\ e3 >= e2 + 2 /\ At(s, e3 + 1) = "/"
        /\ e4 >= e3 + 2 /\ At(s, e4 + 1) = MS

\* re.search(r"round-trip min/avg/max/stddev = ([\d.]+)/.../([\d.]+) ms", s)
rtt_re(s) ==
    LET at == {i \in 1..Len(s) : RttMatchAt(s, i)}
    IN  IF at = {} THEN NoMatch
        ELSE LET i == Least(at)
                 e1 == NumRunEnd(s, i + 1)
                 e2 == NumRunEnd(s, e1 + 2)
                 e3 == NumRunEnd(s, e2 + 2)
                 e4 == NumRunEnd(s, e3 + 2)
             IN  Match(<<SubSeq(s, i + 1, e1), SubSeq(s, e1 + 2, e2),
                         SubSeq(s, e2 + 2, e3), SubSeq(s, e3 + 2, e4)>>)

\* len(re.findall(r"Request timeout for icmp_seq", s))
timeout_count(s) == Cardinality({i \in 1..Len(s) : s[i] = TIMEOUT_MARK})

NA == <<"N", "/", "A">>

ERROR == <<"Error">>

parse_ping_output(ping_output) ==
    LET loss_m == packet_loss_re(ping_output)
        stats_m == packet_stats_re(ping_output)
        rtt_m == rtt_re(ping_output)
    IN  IF stats_m.t = "Match" /\ (IntRaises(stats_m.groups[1]) \/ IntRaises(stats_m.groups[2]))
        THEN ValueError
        ELSE
        [packets_transmitted |->
            IF stats_m.t = "Match" THEN PyInt(IntOf(stats_m.groups[1])) ELSE PyStr(NA),
         packets_received |->
            IF stats_m.t = "Match" THEN PyInt(IntOf(stats_m.groups[2])) ELSE PyStr(NA),
         packet_loss |->
            IF loss_m.t = "Match" THEN FloatOf(loss_m.groups[1]) ELSE PyStr(ERROR),
         rtt_min |-> IF rtt_m.t = "Match" THEN rtt_m.groups[1] ELSE NA,
         rtt_avg |-> IF rtt_m.t = "Match" THEN rtt_m.groups[2] ELSE NA,
         rtt_max |-> IF rtt_m.t = "Match" THEN rtt_m.groups[3] ELSE NA,
         rtt_stddev |-> IF rtt_m.t = "Match" THEN rtt_m.groups[4] ELSE NA,
         timeout_count |-> timeout_count(ping_output)]

----------------------------------------------------------------------------
(* What the external ping command can do *)

\* scenario A of the ping on macOS: no loss
OutClean ==
    <<"PING\n", "1", "0", TX, "1", "0", RX, ", ", "0", ".", "0", LOSS, "\n",
      RTT, "1", ".", "0", "/", "2", ".", "0", "/", "3", ".", "0", "/", "0", ".", "5", MS, "\n">>

\* one reply in twenty lost: exactly 5.0%
OutFive ==
    <<TIMEOUT_MARK, " ", "7", "\n", "2", "0", TX, "1", "9", RX, ", ", "5", ".", "0", LOSS, "\n",
      RTT, "1", ".", "2", "/", "2", ".", "5", "/", "9", ".", "1", "/", "1", ".", "1", MS, "\n">>

\* just over the 5% line
OutFiveOne ==
    <<"1", "0", "0", "0", TX, "9", "4", "9", RX, ", ", "5", ".", "1", LOSS, "\n",
      RTT, "1", ".", "2", "/", "2", ".", "5", "/", "9", ".", "1", "/", "1", ".", "1", MS, "\n">>

\* just over no loss
OutTenth ==
    <<"1", "0", "0", "0", TX, "9", "9", "9", RX, ", ", "0", ".", "1", LOSS, "\n",
      RTT, "1", ".", "2", "/", "2", ".", "5", "/", "9", ".", "1", "/", "1", ".", "1", MS, "\n">>

\* nothing came back: no round-trip line
OutDead ==
    <<TIMEOUT_MARK, " ", "0", "\n", TIMEOUT_MARK, " ", "1", "\n",
      "3", TX, "0", RX, ", ", "1", "0", "0", ".", "0", LOSS, "\n">>

\* what ping prints on stderr while nothing comes back
ErrNoRoute == <<"ping: sendto: No route to host\n">>

\* str(e) of the exceptions subprocess.run raises for this command
ErrNoFile == <<"[Errno ", "2", "] No such file or directory: 'ping'">>

ErrDecode == <<"'utf-8' codec can't decode byte ", "0", "xff in position ", "5",
               ": invalid start byte">>

Completed(out, err) == [kind |-> "completed", stdout |-> out, stderr |-> err, e |-> <<>>, spawned |-> TRUE]

TimeoutExpired == [kind |-> "TimeoutExpired", stdout |-> <<>>, stderr |-> <<>>, e |-> <<>>, spawned |-> TRUE]

Raised(desc, sp) == [kind |-> "Exception", stdout |-> <<>>, stderr |-> <<>>, e |-> desc, spawned |-> sp]

\* every way one subprocess.run(command, ..., timeout=count + 10) can end
Outcomes ==
    {Completed(OutClean, <<>>), Completed(OutFive, <<>>), Completed(OutFiveOne, <<>>),
     Completed(OutTenth, <<>>), Completed(OutDead, ErrNoRoute),
     TimeoutExpired,
     Raised(ErrNoFile, FALSE), Raised(ErrDecode, TRUE)}

NotEnded == [kind |-> "", stdout |-> <<>>, stderr |-> <<>>, e |-> <<>>, spawned |-> FALSE]

----------------------------------------------------------------------------
(* ping_host *)

Returned(name, ip, output) == [raised |-> FALSE, name |-> name, ip |-> ip, output |-> output]

Propagated(name, ip) == [raised |-> TRUE, name |-> name, ip |-> ip, output |-> <<>>]

\* the margin of line 106 used for the subprocess timeout too
ping_host_margin5(host_info, outcome) ==
    LET name == host_info[1][1]
        ip == host_info[1][2]
        n == host_info[2]
    IN  CASE outcome.kind = "completed" -> Returned(name, ip, outcome.stdout \o outcome.stderr)
          [] outcome.kind = "TimeoutExpired" ->
                Returned(name, ip, <<"Ping command timed out after ">> \o StrOfInt(n + 5)
                                   \o <<" seconds.">>)
          [] OTHER -> Returned(name, ip, <<"An error occurred: ">> \o outcome.e)

\* only subprocess.TimeoutExpired handled
ping_host_uncaught(host_info, outcome) ==
    LET name == host_info[1][1]
        ip == host_info[1][2]
        n == host_info[2]
    IN  CASE outcome.kind = "completed" -> Returned(name, ip, outcome.stdout \o outcome.stderr)
          [] outcome.kind = "TimeoutExpired" ->
                Returned(name, ip, <<"Ping command timed out after ">>
                                   \o StrOfInt(n + SubprocessMargin) \o <<" seconds.">>)
          [] OTHER -> Propagated(name, ip)

\* what ping_host(host_info) returns when subprocess.run ends as outcome
ping_host(host_info, outcome) ==
    LET name == host_info[1][1]
        ip == host_info[1][2]
        n == host_info[2]
    IN  CASE outcome.kind = "completed" -> Returned(name, ip, outcome.stdout \o outcome.stderr)
          [] outcome.kind = "TimeoutExpired" ->
                Returned(name, ip, <<"Ping command timed out after ">>
                                   \o StrOfInt(n + SubprocessMargin) \o <<" seconds.">>)
          [] OTHER -> Returned(name, ip, <<"An error occurred: ">> \o outcome.e)

----------------------------------------------------------------------------
(* main: the helpers *)

\* two tasks per host
ping_tasks_twice(hs, n) ==
    [i \in 1..(2 * Len(hs)) |-> <<hs[((i - 1) % Len(hs)) + 1], n>>]

\* ping_tasks = [((name, ip), args.count) for name, ip in HOSTS.items()]
ping_tasks(hs, n) == [i \in 1..Len(hs) |-> <<hs[i], n>>]

\* name.replace(" ", "_")
Replace(cs) == [i \in 1..Len(cs) |-> IF cs[i] = " " THEN "_" ELSE cs[i]]

\* one file for every host
log_filename_shared(name) == <<"ping_logs", "/", "ping_results.txt">>

\* os.path.join(log_dir, f"{name.replace(' ', '_')}_ping_results.txt")
log_filename(name) == <<"ping_logs", "/">> \o Replace(Chars(name)) \o <<"_ping_results.txt">>

\* what the two f.write calls put into the file
log_contents(name, ip, output) ==
    <<"--- Ping results for ", name, " (", ip, ") ---\n\n">> \o output

\* {"name": name, "ip": ip, **parsed_data}
ReportRow(name, ip, parsed_data) ==
    [name |-> name, ip |-> ip,
     packets_transmitted |-> parsed_data.packets_transmitted,
     packets_received |-> parsed_data.packets_received,
     packet_loss |-> parsed_data.packet_loss,
     rtt_min |-> parsed_data.rtt_min,
     rtt_avg |-> parsed_data.rtt_avg,
     rtt_max |-> parsed_data.rtt_max,
     rtt_stddev |-> parsed_data.rtt_stddev,
     timeout_count |-> parsed_data.timeout_count]

\* rows that failed to parse left out
AppendedIfParsed(rows, row) ==
    IF row.packet_loss.t = "float" THEN Append(rows, row) ELSE rows

\* all_results.append(row)
Appended(rows, row) == Append(rows, row)

\* the iterator stops as soon as no result is waiting
IterExhaustedEarly == resultq = <<>>

\* imap_unordered's iterator raises StopIteration: every task's result was yielded
IterExhausted == resultq = <<>> /\ ncollected = Len(ping_tasks(hosts, count))

InList(order, x) == \E i \in 1..Len(order) : order[i] = x

\* DISPLAY_ORDER.index(x), for x in the list
Index(order, x) == Least({i \in 1..Len(order) : order[i] = x}) - 1

\* rows with r put behind every row whose key is not larger
Insert(rows, r, order) ==
    LET k == Index(order, r.name)
        after == {i \in 1..Len(rows) : Index(order, rows[i].name) > k}
        p == IF after = {} THEN Len(rows) + 1 ELSE Least(after)
    IN  SubSeq(rows, 1, p - 1) \o <<r>> \o SubSeq(rows, p, Len(rows))

RECURSIVE InsertionSort(_, _)
InsertionSort(rows, order) ==
    IF rows = <<>> THEN <<>>
    ELSE Insert(InsertionSort(SubSeq(rows, 1, Len(rows) - 1), order), rows[Len(rows)], order)

\* the rows left in the order they were collected
sorted_results_unsorted(rows, order) == rows

\* all_results.sort(key=lambda x: DISPLAY_ORDER.index(x["name"])): a stable sort
sorted_results(rows, order) == InsertionSort(rows, order)

\* f"{x:.1f}"
Format1f(f) ==
    LET q == (10 * f.num) \div f.den
        r == (10 * f.num) % f.den
        up == (2 * r > f.den) \/ (2 * r = f.den /\ q % 2 = 1)
        t == IF up THEN q + 1 ELSE q
    IN  StrOfNat(t \div 10) \o <<".">> \o StrOfNat(t % 10)

\* red from 5 on
loss_style_from5(packet_loss) ==
    IF packet_loss.t = "float"
    THEN IF packet_loss.num >= 5 * packet_loss.den THEN "red"
         ELSE IF FloatGt(packet_loss, 0) THEN "yellow" ELSE "green"
    ELSE "red"

\* the markup lines 184-193 wrap loss_str in
loss_style(packet_loss) ==
    IF packet_loss.t = "float"
    THEN IF FloatGt(packet_loss, 5) THEN "red"
         ELSE IF FloatGt(packet_loss, 0) THEN "yellow" ELSE "green"
    ELSE "red"

loss_str(packet_loss) ==
    IF packet_loss.t = "float" THEN Format1f(packet_loss) ELSE packet_loss.s

\* the markup lines 195-197 wrap timeout_count_str in
timeout_style(n) == IF n > 0 THEN "yellow" ELSE "plain"

\* str() of an int or a str
Str(v) == IF v.t = "int" THEN StrOfInt(v.v) ELSE v.s

\* the cells table.add_row is given for one result
table_row(res) ==
    [name |-> res.name, ip |-> res.ip,
     transmitted |-> Str(res.packets_transmitted),
     received |-> Str(res.packets_received),
     loss |-> [style |-> loss_style(res.packet_loss), text |-> loss_str(res.packet_loss)],
     timeouts |-> [style |-> timeout_style(res.timeout_count),
                   text |-> StrOfInt(res.timeout_count)],
     rtt_min |-> res.rtt_min, rtt_avg |-> res.rtt_avg,
     rtt_max |-> res.rtt_max, rtt_stddev |-> res.rtt_stddev]

----------------------------------------------------------------------------
(* main and the pool *)

Names(hs) == {hs[i][1] : i \in 1..Len(hs)}

Counts == {DefaultCount} \cup (1..MaxCount)

\* the registry as compiled in, and one whose display order lacks a host
Registries ==
    {[hosts |-> HOSTS, order |-> DISPLAY_ORDER],
     [hosts |-> HOSTS, order |-> <<"Router", "Google DNS">>]}

InitMain(reg, n) ==
    /\ hosts = reg.hosts
    /\ display_order = reg.order
    /\ count = n
    /\ pc = "start"
    /\ taskq = <<>>
    /\ running = {}
    /\ resultq = <<>>
    /\ ncollected = 0
    /\ cur = None
    /\ progress = <<>>
    /\ logs = <<>>
    /\ open_files = {}
    /\ writes = <<>>
    /\ invoked = [n2 \in Names(reg.hosts) |-> 0]
    /\ started = [n2 \in Names(reg.hosts) |-> 0]
    /\ returned = [n2 \in Names(reg.hosts) |-> None]
    /\ ended = [n2 \in Names(reg.hosts) |-> NotEnded]
    /\ all_results = <<>>
    /\ table = <<>>

Init ==
    /\ \E n \in Counts : InitMain([hosts |-> HOSTS, order |-> DISPLAY_ORDER], n)
    /\ input = <<>>
    /\ parsed = None

\* the pool of line 150 exists and has not been terminated
PoolAlive == pc \in {"loop", "open", "write", "parse"}

\* lines 129-152: the tasks are built and handed to pool.imap_unordered
Setup ==
    /\ pc = "start"
    /\ taskq' = [i \in 1..Len(ping_tasks(hosts, count)) |-> <<i, ping_tasks(hosts, count)[i]>>]
    /\ pc' = "loop"
    /\ UNCHANGED <<hosts, display_order, count, running, resultq, ncollected, cur,
                   progress, logs, open_files, writes, invoked, started, returned, ended,
                   all_results, table, input, parsed>>

\* a free worker of the pool takes the next task and calls ping_host on it
TakeTask ==
    /\ PoolAlive
    /\ taskq /= <<>>
    /\ Cardinality(running) < Len(hosts)
    /\ running' = running \cup {Head(taskq)}
    /\ taskq' = Tail(taskq)
    /\ invoked' = [invoked EXCEPT ![Head(taskq)[2][1][1]] = @ + 1]
    /\ UNCHANGED <<hosts, display_order, count, pc, resultq, ncollected, cur,
                   progress, logs, open_files, writes, started, returned, ended,
                   all_results, table, input, parsed>>

\* subprocess.run ends one way or another; ping_host's return value is queued
FinishTask ==
    /\ PoolAlive
    /\ \E job \in running, outcome \in Outcomes :
        LET name == job[2][1][1]
            res == ping_host(job[2], outcome)
        IN  /\ running' = running \ {job}
            /\ started' = [started EXCEPT ![name] = IF outcome.spawned THEN @ + 1 ELSE @]
            /\ returned' = [returned EXCEPT ![name] = res]
            /\ ended' = [ended EXCEPT ![name] = outcome]
            /\ resultq' = Append(resultq, res)
    /\ UNCHANGED <<hosts, display_order, count, pc, taskq, ncollected, cur,
                   progress, logs, open_files, writes, invoked,
                   all_results, table, input, parsed>>

\* lines 152-154: the iterator yields the next finished result
NextResult ==
    /\ pc = "loop"
    /\ resultq /= <<>>
    /\ cur' = Head(resultq)
    /\ resultq' = Tail(resultq)
    /\ ncollected' = ncollected + 1
    /\ IF Head(resultq).raised
       THEN pc' = "aborted" /\ UNCHANGED progress
       ELSE pc' = "open" /\ progress' = Append(progress, Head(resultq).name)
    /\ UNCHANGED <<hosts, display_order, count, taskq, running, logs, open_files,
                   writes, invoked, started, returned, ended, all_results, table,
                   input, parsed>>

\* lines 157-158: open(filename, "w") truncates the file
OpenLog ==
    /\ pc = "open"
    /\ LET fn == log_filename(cur.name)
       IN  /\ logs' = (fn :> <<>>) @@ logs
           /\ open_files' = open_files \cup {fn}
           /\ writes' = (fn :> (IF fn \in DOMAIN writes THEN writes[fn] + 1 ELSE 1)) @@ writes
    /\ pc' = "write"
    /\ UNCHANGED <<hosts, display_order, count, taskq, running, resultq, ncollected,
                   cur, progress, invoked, started, returned, ended, all_results, table,
                   input, parsed>>

\* lines 159-160: the header and the raw output are written, the file is closed
WriteLog ==
    /\ pc = "write"
    /\ LET fn == log_filename(cur.name)
       IN  /\ logs' = (fn :> log_contents(cur.name, cur.ip, cur.output)) @@ logs
           /\ open_files' = open_files \ {fn}
    /\ pc' = "parse"
    /\ UNCHANGED <<hosts, display_order, count, taskq, running, resultq, ncollected,
                   cur, progress, writes, invoked, started, returned, ended, all_results,
                   table, input, parsed>>

\* lines 163-164; an exception of parse_ping_output ends main()
ParseAppend ==
    /\ pc = "parse"
    /\ LET parsed_data == parse_ping_output(cur.output)
       IN  IF IsRaise(parsed_data)
           THEN /\ pc' = "aborted"
                /\ UNCHANGED all_results
           ELSE /\ all_results' = Appended(all_results,
                                           ReportRow(cur.name, cur.ip, parsed_data))
                /\ pc' = "loop"
    /\ UNCHANGED <<hosts, display_order, count, taskq, running, resultq, ncollected,
                   cur, progress, logs, open_files, writes, invoked, started,
                   returned, ended, table, input, parsed>>

\* the for loop ends and the with block terminates the pool
LoopExit ==
    /\ pc = "loop"
    /\ IterExhausted
    /\ pc' = "sort"
    /\ UNCHANGED <<hosts, display_order, count, taskq, running, resultq, ncollected,
                   cur, progress, logs, open_files, writes, invoked, started,
                   returned, ended, all_results, table, input, parsed>>

\* lines 166-180: list.index raises ValueError for a name DISPLAY_ORDER lacks
Sort ==
    /\ pc = "sort"
    /\ IF \A i \in 1..Len(all_results) : InList(display_order, all_results[i].name)
       THEN /\ all_results' = sorted_results(all_results, display_order)
            /\ pc' = "render"
       ELSE /\ pc' = "aborted"
            /\ UNCHANGED all_results
    /\ UNCHANGED <<hosts, display_order, count, taskq, running, resultq, ncollected,
                   cur, progress, logs, open_files, writes, invoked, started,
                   returned, ended, table, input, parsed>>

\* lines 183-213: one table row per result, then the table is printed
Render ==
    /\ pc = "render"
    /\ table' = [i \in 1..Len(all_results) |-> table_row(all_results[i])]
    /\ pc' = "done"
    /\ UNCHANGED <<hosts, display_order, count, taskq, running, resultq, ncollected,
                   cur, progress, logs, open_files, writes, invoked, started,
                   returned, ended, all_results, input, parsed>>

Next ==
    \/ Setup
    \/ TakeTask
    \/ FinishTask
    \/ NextResult
    \/ OpenLog
    \/ WriteLog
    \/ ParseAppend
    \/ LoopExit
    \/ Sort
    \/ Render

Spec == Init /\ [][Next]_vars

\* the registry is edited before the run: a host may be missing from the display order
InitConfig ==
    /\ \E reg \in Registries : InitMain(reg, DefaultCount)
    /\ input = <<>>
    /\ parsed = None

ConfigSpec == InitConfig /\ [][Next]_vars

----------------------------------------------------------------------------
(* parse_ping_output on its own *)

Fragments ==
    {<<"2", ".", "5", LOSS>>,
     <<"0", LOSS>>,
     <<LOSS>>,
     <<"1", ".", "2", ".">>,
     <<"1", "0", TX, "9", RX>>,
     <<"1", "0", TX>>,
     <<RTT, "1", ".", "0", "/", "2", "/", "3", "/", ".", "5", MS>>,
     <<RTT, "1", "/", "2", MS>>,
     <<TIMEOUT_MARK, "\n">>,
     <<"garbage">>,
     <<LongRun, TX, "1", RX>>}

RECURSIVE Concat(_)
Concat(fs) == IF fs = <<>> THEN <<>> ELSE Head(fs) \o Concat(Tail(fs))

\* the empty text and every text of at most MaxFrags fragments
Texts == {Concat(fs) : fs \in UNION {[1..k -> Fragments] : k \in 0..MaxFrags}}

InitParse ==
    /\ InitMain([hosts |-> HOSTS, order |-> DISPLAY_ORDER], DefaultCount)
    /\ input \in Texts
    /\ parsed = None

ParseInput ==
    /\ parsed = None
    /\ parsed' = parse_ping_output(input)
    /\ UNCHANGED <<hosts, display_order, count, pc, taskq, running, resultq,
                   ncollected, cur, progress, logs, open_files, writes, invoked,
                   started, returned, ended, all_results, table, input>>

NextParse == ParseInput

ParseSpec == InitParse /\ [][NextParse]_vars

----------------------------------------------------------------------------
(* The claims *)

HostIp(name) == hosts[CHOOSE i \in 1..Len(hosts) : hosts[i][1] = name][2]

RowsOf(name) == {i \in 1..Len(all_results) : all_results[i].name = name}

Failed(name) == ended[name].kind \in {"TimeoutExpired", "Exception"}

\* C1: when the table is sorted, built and printed, all_results holds exactly
\* one row per host of HOSTS, whatever way each host's ping ended: none is
\* missing, none is doubled, and there are as many rows as hosts.
C1_OneRowPerHost ==
    pc \in {"sort", "render", "done"} =>
        /\ Len(all_results) = Len(hosts)
        /\ \A name \in Names(hosts) : Cardinality(RowsOf(name)) = 1
        /\ pc = "done" => Len(table) = Len(hosts)

\* a finished run in which one host succeeded, one timed out and one raised
C1_Witness ==
    /\ pc = "done"
    /\ ended["Router"].kind = "completed"
    /\ ended["Modem"].kind = "TimeoutExpired"
    /\ ended["Google DNS"].kind = "Exception"
    /\ Len(table) = 3

\* C2: after the sort, row i is the host named DISPLAY_ORDER[i], in whatever
\* order the results were delivered.
C2_DisplayOrder ==
    pc \in {"render", "done"} =>
        /\ Len(all_results) = Len(display_order)
        /\ \A i \in 1..Len(all_results) : all_results[i].name = display_order[i]
        /\ pc = "done" =>
              /\ Len(table) = Len(display_order)
              /\ \A i \in 1..Len(table) : table[i].name = display_order[i]

\* the results arrived in the reverse of the display order
C2_Witness ==
    /\ pc = "done"
    /\ progress = <<"Google DNS", "Modem", "Router">>
    /\ <<table[1].name, table[2].name, table[3].name>> = <<"Router", "Modem", "Google DNS">>

\* C3: the table is sorted, built and printed only after every host's task has
\* delivered its result and the result was logged, parsed and appended.
C3_NoEarlyRender ==
    /\ pc \in {"sort", "render", "done"} =>
          /\ taskq = <<>> /\ running = {} /\ resultq = <<>>
          /\ \A name \in Names(hosts) :
                /\ returned[name] /= None
                /\ InList(progress, name)
                /\ log_filename(name) \in DOMAIN logs
                /\ logs[log_filename(name)] =
                       log_contents(name, HostIp(name), returned[name].output)
                /\ RowsOf(name) /= {}
    /\ table /= <<>> => pc = "done"

\* the table is printed, and the host that reported last was a failed one
C3_Witness ==
    /\ pc = "done"
    /\ Len(table) = 3
    /\ progress[3] = "Modem"
    /\ Failed("Modem")

SentinelRow(r) ==
    /\ r.packet_loss = PyStr(<<"Error">>)
    /\ r.packets_transmitted = PyStr(<<"N", "/", "A">>)
    /\ r.packets_received = PyStr(<<"N", "/", "A">>)
    /\ r.rtt_min = <<"N", "/", "A">> /\ r.rtt_avg = <<"N", "/", "A">>
    /\ r.rtt_max = <<"N", "/", "A">> /\ r.rtt_stddev = <<"N", "/", "A">>
    /\ r.timeout_count = 0

\* C4: a ping that times out or raises never aborts the batch: main() never
\* ends on an exception and, until the report is printed, some step can always
\* be taken (ParseAppend and Sort need nothing but their pc); the failed
\* host's row holds "Error", "N/A" six times and 0 timeouts, and every row is
\* the one its own host's output gives, whatever happened to the other hosts.
C4_FailureOnlyDegradesOwnRow ==
    /\ pc /= "aborted"
    /\ \/ pc = "done"
       \/ pc \in {"parse", "sort"}
       \/ ENABLED (Setup \/ TakeTask \/ FinishTask \/ NextResult \/ OpenLog
                   \/ WriteLog \/ LoopExit \/ Render)
    /\ pc \in {"render", "done"} =>
          \A i \in 1..Len(all_results) :
              LET r == all_results[i]
              IN  /\ Failed(r.name) => SentinelRow(r)
                  /\ r = ReportRow(r.name, HostIp(r.name),
                                   parse_ping_output(returned[r.name].output))
                  /\ ended[r.name].kind = "completed" =>
                        r = ReportRow(r.name, HostIp(r.name),
                                parse_ping_output(ended[r.name].stdout \o ended[r.name].stderr))

\* the report of a run in which one host timed out, one raised, and the third
\* has its full row
C4_Witness ==
    /\ pc = "done"
    /\ ended["Router"].kind = "TimeoutExpired"
    /\ ended["Google DNS"].kind = "Exception"
    /\ ended["Modem"] = Completed(OutClean, <<>>)
    /\ SentinelRow(all_results[1]) /\ SentinelRow(all_results[3])
    /\ all_results[2].packet_loss = PyFloat(0, 1)
    /\ all_results[2].packets_received = PyInt(10)
    /\ all_results[2].rtt_stddev = <<"0", ".", "5">>

\* C5: ping_host returns (name, address, rawOutput) with the name and address
\* it was given and never raises; after a timeout rawOutput names count + 10
\* seconds, after another failure it embeds the error's description.
C5_PingHostAlwaysReturns ==
    /\ \A i \in 1..Len(resultq) : ~resultq[i].raised
    /\ \A name \in Names(hosts) :
          ended[name].kind /= "" =>
              /\ ~returned[name].raised
              /\ returned[name].name = name
              /\ returned[name].ip = HostIp(name)
              /\ ended[name].kind = "TimeoutExpired" =>
                    returned[name].output =
                        <<"Ping command timed out after ">> \o StrOfNat(count + 10)
                        \o <<" seconds.">>
              /\ ended[name].kind = "Exception" =>
                    returned[name].output = <<"An error occurred: ">> \o ended[name].e
              /\ ended[name].kind = "completed" =>
                    returned[name].output = ended[name].stdout \o ended[name].stderr

\* with the default count, one host timed out ("... after 20 seconds.") and
\* another could not start ping
C5_Witness ==
    /\ count = 10
    /\ ended["Modem"].kind = "TimeoutExpired"
    /\ returned["Modem"].output = <<"Ping command timed out after ", "2", "0", " seconds.">>
    /\ ended["Router"].kind = "Exception"
    /\ returned["Router"].output =
           <<"An error occurred: ", "[Errno ", "2", "] No such file or directory: 'ping'">>

\* g is a number as "% packet loss" is preceded by one: digits, then maybe a
\* point and more digits
IsLossNumber(g) ==
    \E a \in 1..Len(g) :
        /\ \A j \in 1..a : IsDigit(g[j])
        /\ \/ a = Len(g)
           \/ g[a + 1] = "." /\ \A j \in (a + 2)..Len(g) : IsDigit(g[j])

AllDigits(g) == g /= <<>> /\ \A j \in 1..Len(g) : IsDigit(g[j])

IsRttToken(g) == g /= <<>> /\ \A j \in 1..Len(g) : IsDigit(g[j]) \/ g[j] = "."

\* the text holds a number right before "% packet loss"
HasLossPattern(s) ==
    \E i \in 1..Len(s), j \in 1..Len(s) :
        i <= j /\ j < Len(s) /\ s[j + 1] = LOSS /\ IsLossNumber(SubSeq(s, i, j))

\* the text holds "<N> packets transmitted, <M> packets received"
HasStatsPattern(s) ==
    \E i \in 1..Len(s), j \in 1..Len(s), k \in 1..Len(s) :
        /\ i <= j /\ j + 2 <= k /\ k < Len(s)
        /\ AllDigits(SubSeq(s, i, j)) /\ s[j + 1] = TX
        /\ AllDigits(SubSeq(s, j + 2, k)) /\ s[k + 1] = RX

\* the text holds the round-trip line, with its four tokens
HasRttPattern(s) ==
    \E i \in 1..Len(s) :
        /\ s[i] = RTT
        /\ \E a \in i..Len(s), b \in i..Len(s), c \in i..Len(s), d \in i..Len(s) :
              /\ i < a /\ a + 1 < b /\ b + 1 < c /\ c + 1 < d
              /\ IsRttToken(SubSeq(s, i + 1, a - 1)) /\ s[a] = "/"
              /\ IsRttToken(SubSeq(s, a + 1, b - 1)) /\ s[b] = "/"
              /\ IsRttToken(SubSeq(s, b + 1, c - 1)) /\ s[c] = "/"
              /\ IsRttToken(SubSeq(s, c + 1, d - 1)) /\ s[d] = MS

RECURSIVE Occurrences(_, _)
Occurrences(s, x) ==
    IF s = <<>> THEN 0 ELSE (IF Head(s) = x THEN 1 ELSE 0) + Occurrences(Tail(s), x)

\* C6: parse_ping_output never fails: for every text it returns all eight
\* fields; packet loss is a number iff a number stands before "% packet loss"
\* (else "Error"), the two packet counts are integers iff the
\* transmitted/received pattern is there (else both "N/A"), the four RTT
\* fields are captured tokens iff the round-trip line is there (else all
\* "N/A"), the timeout count is the number of "Request timeout for icmp_seq";
\* each field follows its own pattern only.
C6_ParseTotalFieldwise ==
    parsed /= None =>
        /\ DOMAIN parsed = {"packets_transmitted", "packets_received", "packet_loss",
                            "rtt_min", "rtt_avg", "rtt_max", "rtt_stddev", "timeout_count"}
        /\ IF HasLossPattern(input)
           THEN parsed.packet_loss.t = "float" /\ parsed.packet_loss.num >= 0
           ELSE parsed.packet_loss = PyStr(<<"Error">>)
        /\ IF HasStatsPattern(input)
           THEN /\ parsed.packets_transmitted.t = "int"
                /\ parsed.packets_received.t = "int"
           ELSE /\ parsed.packets_transmitted = PyStr(<<"N", "/", "A">>)
                /\ parsed.packets_received = PyStr(<<"N", "/", "A">>)
        /\ IF HasRttPattern(input)
           THEN /\ IsRttToken(parsed.rtt_min) /\ IsRttToken(parsed.rtt_avg)
                /\ IsRttToken(parsed.rtt_max) /\ IsRttToken(parsed.rtt_stddev)
           ELSE /\ parsed.rtt_min = <<"N", "/", "A">> /\ parsed.rtt_avg = <<"N", "/", "A">>
                /\ parsed.rtt_max = <<"N", "/", "A">> /\ parsed.rtt_stddev = <<"N", "/", "A">>
        /\ parsed.timeout_count = Occurrences(input, TIMEOUT_MARK)

\* C7: the packet-loss style of a row follows from its packet-loss value:
\* exactly 0 green, above 0 up to and including 5 yellow, above 5 red, not a
\* number red; a timeout count above 0 is yellow, a count of 0 plain.
C7_LossStyle ==
    pc = "done" =>
        \A i \in 1..Len(table) :
            LET v == all_results[i].packet_loss
                n == all_results[i].timeout_count
            IN  /\ table[i].loss.style \in {"green", "yellow", "red"}
                /\ (v.t = "float" /\ v.num = 0) => table[i].loss.style = "green"
                /\ (v.t = "float" /\ v.num > 0 /\ v.num <= 5 * v.den) =>
                       table[i].loss.style = "yellow"
                /\ (v.t = "float" /\ v.num > 5 * v.den) => table[i].loss.style = "red"
                /\ v.t /= "float" => table[i].loss.style = "red"
                /\ n > 0 => table[i].timeouts.style = "yellow"
                /\ n = 0 => table[i].timeouts.style = "plain"

\* a report with a row of exactly 5.0% (yellow, one timeout), a row of 5.1%
\* (red) and a row of 0.0% (green)
C7_Witness ==
    /\ pc = "done"
    /\ all_results[1].packet_loss = PyFloat(5, 1)
    /\ table[1].loss = [style |-> "yellow", text |-> <<"5", ".", "0">>]
    /\ table[1].timeouts = [style |-> "yellow", text |-> <<"1">>]
    /\ all_results[2].packet_loss = PyFloat(51, 10)
    /\ table[2].loss = [style |-> "red", text |-> <<"5", ".", "1">>]
    /\ all_results[3].packet_loss = PyFloat(0, 1)
    /\ table[3].loss = [style |-> "green", text |-> <<"0", ".", "0">>]
    /\ table[3].timeouts.style = "plain"

QueuedFor(name) == {j \in 1..Len(taskq) : taskq[j][2][1][1] = name}

RunningFor(name) == {job \in running : job[2][1][1] = name}

\* C8: no retry: ping_host is called once per host and the external ping is
\* started at most once for it, however its ping ended; a host that returned
\* is never submitted again.
C8_NoRetry ==
    \A name \in Names(hosts) :
        /\ invoked[name] <= 1
        /\ started[name] <= invoked[name]
        /\ Cardinality(QueuedFor(name)) + invoked[name] <= 1
        /\ Cardinality(RunningFor(name)) <= 1
        /\ ended[name].kind /= "" =>
              /\ QueuedFor(name) = {} /\ RunningFor(name) = {}
              /\ invoked[name] = 1
        /\ pc \in {"sort", "render", "done"} => invoked[name] = 1

\* all three hosts failed, one before ping was even started, and each was
\* invoked once
C8_Witness ==
    /\ pc = "done"
    /\ \A name \in Names(hosts) : Failed(name) /\ invoked[name] = 1
    /\ ended["Modem"].kind = "Exception" /\ started["Modem"] = 0
    /\ ended["Router"].kind = "TimeoutExpired" /\ started["Router"] = 1

\* C9: every host's log file is written exactly once, two different hosts
\* never share a file name, and two log writes are never in progress at once.
C9_LogWritesNeverContend ==
    /\ Cardinality(open_files) <= 1
    /\ \A fn \in DOMAIN writes : writes[fn] = 1
    /\ \A a \in Names(hosts), b \in Names(hosts) :
          a /= b => log_filename(a) /= log_filename(b)
    /\ pc \in {"sort", "render", "done"} =>
          \A name \in Names(hosts) :
              log_filename(name) \in DOMAIN writes /\ writes[log_filename(name)] = 1

\* the log of Google DNS is open for writing while another host is still
\* being pinged and a third result waits to be fetched
C9_Witness ==
    /\ pc = "write"
    /\ open_files = {<<"ping_logs", "/", "G", "o", "o", "g", "l", "e", "_", "D", "N", "S",
                       "_ping_results.txt">>}
    /\ running /= {}
    /\ resultq /= <<>>

\* C10: a host name missing from DISPLAY_ORDER is caught at startup: when the
\* run fails for it, no ping task has been started and no log file has been
\* written; it does not fail at the sort.
C10_ValidatedAtStartup ==
    (\E name \in Names(hosts) : ~InList(display_order, name)) =>
        /\ pc /= "sort"
        /\ pc = "aborted" =>
              /\ \A name \in Names(hosts) : invoked[name] = 0
              /\ DOMAIN logs = {}

====
